---- MODULE Spec2Model ----
(***************************************************************************)
(* A model of the periodic snapshot scheduler (class BackupManager) of the *)
(* student-records service.  One Manager instance lives in one Node.js     *)
(* process: the host calls start() and stop(), the runtime fires the       *)
(* repeating timer armed by start(), resolves the awaited file-system      *)
(* calls of every #performBackup invocation in flight, and runs the        *)
(* setImmediate callback scheduled by the overlap-timeout path.            *)
(*                                                                         *)
(* Atomicity follows the event loop: the synchronous part of a handler up  *)
(* to its first await is one step, and the continuation of an await up to  *)
(* the next await (with the promise reactions that run in the same         *)
(* microtask drain, such as the .catch of a rejected #performBackup) is    *)
(* one step.                                                               *)
(*                                                                         *)
(* The Manager and the report aggregator (class BackupReporter) share only *)
(* the backup directory: disk maps the name of every file in it to its     *)
(* content.  File names and file contents are strings, modelled as         *)
(* sequences of one-character strings, so that the formatting and parsing  *)
(* code is modelled by what it does to the characters.                     *)
(***************************************************************************)
EXTENDS Integers, Sequences, FiniteSets

\* Bounds of the exploration.
MaxCalls == 2        \* start()/stop() calls made by the host
MaxOps == 2          \* #performBackup invocations launched
MaxClock == 1        \* seconds that pass on the wall clock

\* if (this.#pendingIntervalsCount >= 3)
OverlapThreshold == 3

Null == 0

VARIABLES
    intervalId,             \* #intervalId: Null or the handle setInterval returned
    isBackupInProgress,     \* #isBackupInProgress
    pendingIntervalsCount,  \* #pendingIntervalsCount
    timers,                 \* the runtime's armed repeating timers (handles)
    ops,                    \* #performBackup invocations started and not finished
    immediates,             \* errors held by pending setImmediate callbacks
    uncaught,               \* errors raised outside any catch context
    events,                 \* the notification stream: channel names, in emission order
    emitted,                \* the notifications, with their arguments, of the latest
                            \* handler run that emitted any
    dirExists,              \* whether the backup directory exists on disk
    disk,                   \* the files of the backup directory: name -> content
    handler,                \* whether the host installed an uncaughtException handler
    now,                    \* the wall clock at its latest reading
    tz,                     \* the host's local time zone: minutes east of UTC
    students,               \* the collection the accessor returns
    fileName,               \* result of the latest #generateBackupFileName call
    parsed,                 \* results of the #parseTimestampFromFilename calls
    loaded,                 \* results of the loadJSON calls
    run,                    \* the locals of the generateReport call in progress
    report,                 \* outcomes of the generateReport calls
    html,                   \* the content of the HTML file the live server serves
    readStream,             \* the chunks the file's read stream has still to deliver
    buffer,                 \* this.buffer of injectScriptTransform
    injected,               \* this.injected of injectScriptTransform
    res,                    \* the response: the chunks written, and whether it ended
    backupManager,          \* the module variable backupManager of student.js
    responses               \* the answers of the backup routes, in request order

vars == <<intervalId, isBackupInProgress, pendingIntervalsCount, timers, ops,
          immediates, uncaught, events, emitted, dirExists, disk, handler,
          now, tz, students, fileName, parsed, loaded, run, report, html,
          readStream, buffer, injected, res, backupManager, responses>>

manager == <<intervalId, isBackupInProgress, pendingIntervalsCount>>

\* The file system and the clock.
env == <<dirExists, disk, now>>

\* The live server's transform stream and its response.
server == <<html, readStream, buffer, injected, res>>

\* The backup routes of the API server.
api == <<backupManager, responses>>

\* What no step of the Manager changes.
host == <<handler, tz, students, fileName, parsed, loaded, run, report, server, api>>

----------------------------------------------------------------------------
\* Values.

NoError == <<"none", 0>>
\* new Error("Backup operation has been pending for 3 intervals in a row"),
\* one object per timer that times out.
TimeoutError(t) == <<"pending-3-intervals", t>>
NotArrayError == <<"Students data is not an array", 0>>
AccessError == <<"EACCES", 0>>
MkdirError == <<"mkdir failed", 0>>
WriteError == <<"write failed", 0>>
\* JSON.stringify throws a TypeError (a cyclic structure, a BigInt).
StringifyError == <<"TypeError", 0>>

\* let backupFileName = null
NoFile == <<>>

\* A notification with its arguments: the error and the file name it carries.
FileEvent(name, err, file) == [name |-> name, err |-> err, file |-> file]
Event(name, err) == FileEvent(name, err, NoFile)

CallNames == {"backup:started", "backup:already-running", "backup:stopped",
              "backup:not-running"}
SnapshotNames == {"backup:completed", "backup:failed", "backup:error"}

Count(s, names) == Cardinality({j \in DOMAIN s : s[j] \in names})

\* this.emit(...) called once per element of list, in order.
emit(list) ==
    /\ events' = events \o [j \in DOMAIN list |-> list[j].name]
    /\ emitted' = list

NumCalls == Count(events, CallNames)
NumFinished == Count(events, {"backup:completed", "backup:failed"})
NumLaunched == NumFinished + Len(ops)

\* setInterval returns a fresh Timeout object on every call.
NewHandle == Count(events, {"backup:started"}) + 1

\* Node terminates the process on an uncaught exception unless the host
\* listens for 'uncaughtException'.
alive == handler \/ uncaught = <<>>

Remove(s, i) == [j \in 1..(Len(s) - 1) |-> IF j < i THEN s[j] ELSE s[j + 1]]

Min(a, b) == IF a < b THEN a ELSE b

\* Every invocation in flight has now seen one more tick fire (history field,
\* saturating at the threshold).
Witnessed(s) ==
    [j \in 1..Len(s) |-> [s[j] EXCEPT !.seen = Min(@ + 1, OverlapThreshold)]]

----------------------------------------------------------------------------
\* Strings: sequences of one-character strings.

Digits == <<"0", "1", "2", "3", "4", "5", "6", "7", "8", "9">>
IsDigit(c) == \E d \in 1..10 : Digits[d] = c
DigitValue(c) == (CHOOSE d \in 1..10 : Digits[d] = c) - 1

RECURSIVE Pow10(_)
Pow10(w) == IF w = 0 THEN 1 ELSE 10 * Pow10(w - 1)

\* n in decimal, zero-padded to w digits.
Pad(n, w) == [j \in 1..w |-> Digits[((n \div Pow10(w - j)) % 10) + 1]]

\* The number a string of digits denotes.
RECURSIVE Number(_)
Number(s) ==
    IF s = <<>> THEN 0
    ELSE 10 * Number(SubSeq(s, 1, Len(s) - 1)) + DigitValue(s[Len(s)])

EndsWith(s, p) == Len(s) >= Len(p) /\ SubSeq(s, Len(s) - Len(p) + 1, Len(s)) = p

\* Position of the first occurrence of p in s, 0 when there is none.
IndexOf(s, p) ==
    LET at == {j \in 1..(Len(s) - Len(p) + 1) : SubSeq(s, j, j + Len(p) - 1) = p}
    IN  IF at = {} THEN 0 ELSE CHOOSE j \in at : \A k \in at : j <= k

\* String.prototype.replace with a string pattern: the first occurrence only.
ReplaceFirst(s, p, r) ==
    LET j == IndexOf(s, p)
    IN  IF j = 0 THEN s
        ELSE SubSeq(s, 1, j - 1) \o r \o SubSeq(s, j + Len(p), Len(s))

\* String.prototype.replace(/c/g, r) for a one-character pattern.
ReplaceAll(s, c, r) == [j \in 1..Len(s) |-> IF s[j] = c THEN r ELSE s[j]]

\* s.split(c)[0]
SplitFirst(s, c) ==
    LET j == IndexOf(s, <<c>>)
    IN  IF j = 0 THEN s ELSE SubSeq(s, 1, j - 1)

\* s.split(c)
RECURSIVE Split(_, _)
Split(s, c) ==
    LET j == IndexOf(s, <<c>>)
    IN  IF j = 0 THEN <<s>>
        ELSE <<SubSeq(s, 1, j - 1)>> \o Split(SubSeq(s, j + 1, Len(s)), c)

\* path.basename(p, ext) of a name without directory part.
Basename(p, ext) ==
    IF EndsWith(p, ext) /\ p # ext THEN SubSeq(p, 1, Len(p) - Len(ext)) ELSE p

BackupPrefix == <<"b", "a", "c", "k", "u", "p", "-">>
BackupSuffix == <<".", "b", "a", "c", "k", "u", "p", ".", "j", "s", "o", "n">>

----------------------------------------------------------------------------
\* Dates.  An instant is a number of whole seconds since 1970-01-01T00:00:00Z
\* and a number of milliseconds within the second; the value of an invalid
\* Date (time value NaN) is InvalidDate.

SecondsPerDay == 24 * 3600

Instant(sec, ms) == [valid |-> TRUE, sec |-> sec, ms |-> ms]
InvalidDate == [valid |-> FALSE, sec |-> 0, ms |-> 0]

\* Days since 1970-01-01 to the civil date and back (Gregorian calendar).
CivilFromDays(z0) ==
    LET z == z0 + 719468
        era == z \div 146097
        doe == z - era * 146097
        yoe == (doe - doe \div 1460 + doe \div 36524 - doe \div 146096) \div 365
        doy == doe - (365 * yoe + yoe \div 4 - yoe \div 100)
        mp == (5 * doy + 2) \div 153
        d == doy - (153 * mp + 2) \div 5 + 1
        m == IF mp < 10 THEN mp + 3 ELSE mp - 9
        y == yoe + era * 400 + (IF m <= 2 THEN 1 ELSE 0)
    IN  [year |-> y, month |-> m, day |-> d]

DaysFromCivil(y0, m, d) ==
    LET y == IF m <= 2 THEN y0 - 1 ELSE y0
        era == y \div 400
        yoe == y - era * 400
        doy == (153 * (IF m > 2 THEN m - 3 ELSE m + 9) + 2) \div 5 + d - 1
        doe == yoe * 365 + yoe \div 4 - yoe \div 100 + doy
    IN  era * 146097 + doe - 719468

\* The calendar fields of the instant sec seconds after the epoch, in UTC.
Fields(sec) ==
    LET date == CivilFromDays(sec \div SecondsPerDay)
        sod == sec % SecondsPerDay
    IN  [year |-> date.year, month |-> date.month, day |-> date.day,
         hour |-> sod \div 3600, minute |-> (sod % 3600) \div 60,
         second |-> sod % 60]

\* The same fields in the host's local time, offset minutes east of UTC.
LocalFields(sec, offset) == Fields(sec + 60 * offset)

\* Date.prototype.toISOString: YYYY-MM-DDTHH:mm:ss.sssZ, in UTC.
toISOString(date) ==
    LET f == Fields(date.sec)
    IN  Pad(f.year, 4) \o <<"-">> \o Pad(f.month, 2) \o <<"-">> \o Pad(f.day, 2)
        \o <<"T">> \o Pad(f.hour, 2) \o <<":">> \o Pad(f.minute, 2) \o <<":">>
        \o Pad(f.second, 2) \o <<".">> \o Pad(date.ms, 3) \o <<"Z">>

\* new Date(year, monthIndex, day, hours, minutes, seconds): local time.
DateFromLocal(year, monthIndex, day, hours, minutes, seconds, offset) ==
    Instant(DaysFromCivil(year, monthIndex + 1, day) * SecondsPerDay
                + 3600 * hours + 60 * minutes + seconds - 60 * offset, 0)

\* Whether s has the digits and separators of the picture p, where "d" in p
\* stands for any digit.
Matches(s, p) ==
    /\ Len(s) = Len(p)
    /\ \A j \in DOMAIN p : IF p[j] = "d" THEN IsDigit(s[j]) ELSE s[j] = p[j]

IsoDate == <<"d", "d", "d", "d", "-", "d", "d", "-", "d", "d">>
IsoTime == <<"T", "d", "d", ":", "d", "d", ":", "d", "d">>

\* new Date(string).  The date-time forms of the ECMAScript format are
\* accepted: YYYY-MM-DD (UTC), YYYY-MM-DDTHH:mm:ss (local time) and
\* YYYY-MM-DDTHH:mm:ssZ (UTC).  For any other string of the names met here
\* V8's fallback parser gives up: after a complete date it rejects a sign
\* that does not follow a time, and a string without a number has no date.
DateParse(s, offset) ==
    LET num(a, b) == Number(SubSeq(s, a, b))
        inRange == /\ num(6, 7) \in 1..12
                   /\ num(9, 10) \in 1..31
                   /\ Len(s) > 10 => /\ num(12, 13) \in 0..23
                                     /\ num(15, 16) \in 0..59
                                     /\ num(18, 19) \in 0..59
        days == DaysFromCivil(num(1, 4), num(6, 7), num(9, 10))
        secs == 3600 * num(12, 13) + 60 * num(15, 16) + num(18, 19)
    IN  IF Matches(s, IsoDate) /\ inRange
            THEN Instant(days * SecondsPerDay, 0)
        ELSE IF Matches(s, IsoDate \o IsoTime) /\ inRange
            THEN Instant(days * SecondsPerDay + secs - 60 * offset, 0)
        ELSE IF Matches(s, IsoDate \o IsoTime \o <<"Z">>) /\ inRange
            THEN Instant(days * SecondsPerDay + secs, 0)
        ELSE InvalidDate

\* parseInt(s): the longest prefix of digits, NaN (here -1) when it is empty.
NaN == 0 - 1
RECURSIVE DigitPrefix(_)
DigitPrefix(s) ==
    IF s = <<>> \/ ~IsDigit(Head(s)) THEN <<>>
    ELSE <<Head(s)>> \o DigitPrefix(Tail(s))
parseInt(s) == IF DigitPrefix(s) = <<>> THEN NaN ELSE Number(DigitPrefix(s))

\* BackupManager.#generateBackupFileName, called at instant date.
generateBackupFileName(date) ==
    LET timestamp ==
            SplitFirst(ReplaceAll(ReplaceFirst(toISOString(date), <<"T">>, <<"-">>),
                                  ":", "-"),
                       ".")
    IN  BackupPrefix \o timestamp \o BackupSuffix

\* BackupReporter.#parseTimestampFromFilename
parseTimestampFromFilename(filename, offset) ==
    LET basename == Basename(filename, BackupSuffix)
        timestampStr == ReplaceFirst(basename, BackupPrefix, <<>>)
        timePart == SplitFirst(timestampStr, "T")
        parts == Split(timestampStr, "-")
        n(j) == parseInt(parts[j])
    IN  IF timePart = <<>> /\ Len(parts) >= 6
        THEN IF \E j \in 1..6 : n(j) = NaN
             THEN InvalidDate
             ELSE DateFromLocal(n(1), n(2) - 1, n(3), n(4), n(5), n(6), offset)
        ELSE DateParse(timestampStr, offset)

----------------------------------------------------------------------------
\* JSON.  A JavaScript value is a pair of its type and its content; an
\* object holds its own properties as <<key, value>> pairs in creation order.

Str(s) == <<"string", s>>
Num(n) == <<"number", n>>
Bool(b) == <<"boolean", b>>
JNull == <<"null", 0>>
Undefined == <<"undefined", 0>>
Arr(items) == <<"array", items>>
Obj(members) == <<"object", members>>
Type(v) == v[1]

\* Array.isArray(v)
isArray(v) == Type(v) = "array"

\* obj[key]: the latest property of that name, undefined when there is none.
Get(obj, key) ==
    LET at == {j \in DOMAIN obj[2] : obj[2][j][1] = key}
    IN  IF Type(obj) # "object" \/ at = {} THEN Undefined
        ELSE obj[2][CHOOSE j \in at : \A k \in at : k <= j][2]

RECURSIVE Flatten(_)
Flatten(ss) == IF ss = <<>> THEN <<>> ELSE Head(ss) \o Flatten(Tail(ss))

RECURSIVE Join(_, _)
Join(ss, sep) ==
    IF ss = <<>> THEN <<>>
    ELSE IF Len(ss) = 1 THEN ss[1]
    ELSE ss[1] \o sep \o Join(Tail(ss), sep)

RECURSIVE Decimal(_)
Decimal(n) ==
    IF n < 10 THEN <<Digits[n + 1]>>
    ELSE Decimal(n \div 10) \o <<Digits[(n % 10) + 1]>>

\* Number::toString of an integer.
NumberToString(n) == IF n < 0 THEN <<"-">> \o Decimal(0 - n) ELSE Decimal(n)

\* Variant of QuoteChar: nothing is escaped.
QuoteCharPlain(c) == <<c>>

\* QuoteJSONString: the quote, the backslash and the control characters are
\* escaped.
QuoteChar(c) ==
    CASE c = "\"" -> <<"\\", "\"">>
      [] c = "\\" -> <<"\\", "\\">>
      [] c = "\n" -> <<"\\", "n">>
      [] c = "\t" -> <<"\\", "t">>
      [] c = "\r" -> <<"\\", "r">>
      [] OTHER -> <<c>>
Quote(s) == <<"\"">> \o Flatten([j \in DOMAIN s |-> QuoteChar(s[j])]) \o <<"\"">>

Spaces(k) == [j \in 1..k |-> " "]

\* JSON.stringify(value, null, gap) at nesting depth indent / gap.
RECURSIVE stringify(_, _, _)
stringify(v, gap, indent) ==
    LET inner == indent + gap
        open == <<"\n">> \o Spaces(inner)
        sep == <<",">> \o open
        close == <<"\n">> \o Spaces(indent)
        element(x) == IF Type(x) = "undefined" THEN <<"n", "u", "l", "l">>
                      ELSE stringify(x, gap, inner)
        defined == SelectSeq(v[2], LAMBDA m : Type(m[2]) # "undefined")
        member(m) == Quote(m[1]) \o <<":", " ">> \o stringify(m[2], gap, inner)
    IN  CASE Type(v) = "string" -> Quote(v[2])
          [] Type(v) = "number" -> NumberToString(v[2])
          [] Type(v) = "boolean" -> IF v[2] THEN <<"t", "r", "u", "e">>
                                    ELSE <<"f", "a", "l", "s", "e">>
          [] Type(v) = "null" -> <<"n", "u", "l", "l">>
          [] Type(v) = "array" ->
                IF v[2] = <<>> THEN <<"[", "]">>
                ELSE <<"[">> \o open
                     \o Join([j \in DOMAIN v[2] |-> element(v[2][j])], sep)
                     \o close \o <<"]">>
          [] Type(v) = "object" ->
                IF defined = <<>> THEN <<"{", "}">>
                ELSE <<"{">> \o open
                     \o Join([j \in DOMAIN defined |-> member(defined[j])], sep)
                     \o close \o <<"}">>

\* The result of a parsing step: the value read and the text left over.
Fail == [ok |-> FALSE, value |-> Undefined, rest |-> <<>>]
Ok(v, rest) == [ok |-> TRUE, value |-> v, rest |-> rest]

StartsWith(s, p) == Len(s) >= Len(p) /\ SubSeq(s, 1, Len(p)) = p
Drop(s, k) == SubSeq(s, k + 1, Len(s))

RECURSIVE SkipWs(_)
SkipWs(s) ==
    IF s # <<>> /\ Head(s) \in {" ", "\n", "\t", "\r"} THEN SkipWs(Tail(s)) ELSE s

\* A JSON string after its opening quote.  (The escapes \b, \f and \uXXXX
\* occur in no text written here.)
RECURSIVE ParseChars(_, _)
ParseChars(s, acc) ==
    IF s = <<>> \/ Head(s) \in {"\n", "\t", "\r"} THEN Fail
    ELSE IF Head(s) = "\"" THEN Ok(Str(acc), Tail(s))
    ELSE IF Head(s) # "\\" THEN ParseChars(Tail(s), Append(acc, Head(s)))
    ELSE IF Len(s) < 2 THEN Fail
    ELSE CASE s[2] \in {"\"", "\\", "/"} -> ParseChars(Drop(s, 2), Append(acc, s[2]))
           [] s[2] = "n" -> ParseChars(Drop(s, 2), Append(acc, "\n"))
           [] s[2] = "t" -> ParseChars(Drop(s, 2), Append(acc, "\t"))
           [] s[2] = "r" -> ParseChars(Drop(s, 2), Append(acc, "\r"))
           [] OTHER -> Fail

\* A JSON number: an optional sign and an integer part without leading
\* zeros.  (No text written here has a fraction or an exponent.)
ParseNumber(s) ==
    LET neg == Head(s) = "-"
        body == IF neg THEN Tail(s) ELSE s
        digits == DigitPrefix(body)
    IN  IF digits = <<>> \/ (Len(digits) > 1 /\ digits[1] = "0") THEN Fail
        ELSE Ok(Num(IF neg THEN 0 - Number(digits) ELSE Number(digits)),
                Drop(body, Len(digits)))

Literal(s, word, v) == IF StartsWith(s, word) THEN Ok(v, Drop(s, Len(word))) ELSE Fail

RECURSIVE ParseValue(_)
RECURSIVE ParseElements(_, _)
RECURSIVE ParseMembers(_, _)

ParseValue(text) ==
    LET s == SkipWs(text)
        t == SkipWs(Tail(s))
    IN  IF s = <<>> THEN Fail
        ELSE CASE Head(s) = "\"" -> ParseChars(Tail(s), <<>>)
               [] Head(s) = "-" \/ IsDigit(Head(s)) -> ParseNumber(s)
               [] Head(s) = "n" -> Literal(s, <<"n", "u", "l", "l">>, JNull)
               [] Head(s) = "t" -> Literal(s, <<"t", "r", "u", "e">>, Bool(TRUE))
               [] Head(s) = "f" -> Literal(s, <<"f", "a", "l", "s", "e">>, Bool(FALSE))
               [] Head(s) = "[" ->
                    IF t # <<>> /\ Head(t) = "]" THEN Ok(Arr(<<>>), Tail(t))
                    ELSE ParseElements(t, <<>>)
               [] Head(s) = "{" ->
                    IF t # <<>> /\ Head(t) = "}" THEN Ok(Obj(<<>>), Tail(t))
                    ELSE ParseMembers(t, <<>>)
               [] OTHER -> Fail

\* The elements of an array after "[" or ",".
ParseElements(s, acc) ==
    LET r == ParseValue(s)
        t == SkipWs(r.rest)
    IN  IF ~r.ok \/ t = <<>> THEN Fail
        ELSE IF Head(t) = "," THEN ParseElements(Tail(t), Append(acc, r.value))
        ELSE IF Head(t) = "]" THEN Ok(Arr(Append(acc, r.value)), Tail(t))
        ELSE Fail

\* The members of an object after "{" or ",".
ParseMembers(text, acc) ==
    LET s == SkipWs(text)
        k == ParseChars(Tail(s), <<>>)
        c == SkipWs(k.rest)
        r == ParseValue(Tail(c))
        t == SkipWs(r.rest)
        members == Append(acc, <<k.value[2], r.value>>)
    IN  IF s = <<>> \/ Head(s) # "\"" THEN Fail
        ELSE IF ~k.ok \/ c = <<>> \/ Head(c) # ":" THEN Fail
        ELSE IF ~r.ok \/ t = <<>> THEN Fail
        ELSE IF Head(t) = "," THEN ParseMembers(Tail(t), members)
        ELSE IF Head(t) = "}" THEN Ok(Obj(members), Tail(t))
        ELSE Fail

\* JSON.parse(text): a SyntaxError is the result Fail.
JSONparse(text) ==
    LET r == ParseValue(text)
    IN  IF r.ok /\ SkipWs(r.rest) = <<>> THEN r ELSE Fail

----------------------------------------------------------------------------
\* The records of the service and the starting point of the exploration.

IdKey == <<"i", "d">>
NameKey == <<"n", "a", "m", "e">>
AgeKey == <<"a", "g", "e">>
GroupKey == <<"g", "r", "o", "u", "p">>
Keys == {IdKey, NameKey, AgeKey, GroupKey}

\* new Student(id, name, age, group)
Student(id, name, age, group) ==
    Obj(<<<<IdKey, id>>, <<NameKey, name>>, <<AgeKey, age>>, <<GroupKey, group>>>>)

\* The locals of generateReport: the files still to read and the running
\* totals.  latestDate holds no element while it is null.
Locals(pc, files, latestFile, latestDate, counts, total, nonEmpty) ==
    [pc |-> pc, backupFiles |-> files, amountOfBackupFiles |-> Len(files),
     latestFile |-> latestFile,
     latestDate |-> latestDate, studentIdCounts |-> counts,
     totalStudents |-> total, totalFilesWithStudents |-> nonEmpty]

\* const studentIdCounts = {}
NoCounts == [k \in {} |-> 0]

\* No generateReport call was made.
NotCalled == Locals("idle", <<>>, NoFile, <<>>, NoCounts, 0, 0)

\* A backup directory without files.
NoFiles == [n \in {} |-> <<>>]

\* The exploration starts one second before 2025-01-01T00:00:00Z.
Epoch == Instant(DaysFromCivil(2025, 1, 1) * SecondsPerDay - 1, 0)

\* What an accessor that does not return the collection returns.
NotAnArray == Obj(<<>>)

SampleStudents ==
    Arr(<<Student(Str(<<"1">>), Str(<<"A", "n", "n">>), Num(23), Num(4)),
          Student(Str(<<"2">>), Str(<<"B", "o">>), Num(19), Num(4))>>)

----------------------------------------------------------------------------
\* BackupManager

isRunning == intervalId # Null

\* Variant of performBackup: the entry does not reset the overlap counter.
performBackupNoReset(by, inflight) ==
    /\ isBackupInProgress' = TRUE
    /\ pendingIntervalsCount' = pendingIntervalsCount
    /\ ops' = Append(inflight, [pc |-> "access", by |-> by, seen |-> 0,
                                 file |-> NoFile, json |-> <<>>])

\* #performBackup from its entry to the first await (fs.access inside
\* #ensureBackupDirectory has been issued).
performBackup(by, inflight) ==
    /\ isBackupInProgress' = TRUE
    /\ pendingIntervalsCount' = 0
    /\ ops' = Append(inflight, [pc |-> "access", by |-> by, seen |-> 0,
                                 file |-> NoFile, json |-> <<>>])

\* Variant of finally: the overlap counter is not reset.
finallyKeepsCount ==
    /\ isBackupInProgress' = FALSE
    /\ pendingIntervalsCount' = pendingIntervalsCount

\* The finally block of #performBackup.
finally ==
    /\ isBackupInProgress' = FALSE
    /\ pendingIntervalsCount' = 0

\* Variant of catch: the call sites attach no rejection handler.
catchMissing(error) == <<>>

\* .catch((error) => this.emit("backup:error", error)) of both call sites.
catch(error) == <<Event("backup:error", error)>>

\* The try block's normal end: emit "backup:completed", then finally.
completed(i) ==
    /\ emit(<<FileEvent("backup:completed", NoError, ops[i].file)>>)
    /\ finally
    /\ ops' = Remove(ops, i)
    /\ UNCHANGED <<intervalId, timers, immediates, uncaught, host>>

\* Variant of failed: no rejection handler is attached, the rejection of
\* #performBackup is raised as an unhandled rejection.
failedUnhandled(i, error) ==
    /\ emit(<<FileEvent("backup:failed", error, ops[i].file)>>)
    /\ finally
    /\ ops' = Remove(ops, i)
    /\ uncaught' = Append(uncaught, error)
    /\ UNCHANGED <<intervalId, timers, immediates, host>>

\* Variant of failed: a failed operation also stops the scheduler.
failedStopsTimer(i, error) ==
    /\ emit(<<FileEvent("backup:failed", error, ops[i].file)>> \o catch(error))
    /\ finally
    /\ ops' = Remove(ops, i)
    /\ timers' = timers \ {intervalId}
    /\ intervalId' = Null
    /\ UNCHANGED <<immediates, uncaught, host>>

\* The catch block: emit "backup:failed" with the error and backupFileName,
\* rethrow; finally; the rejection reaches the .catch handler of the call site.
failed(i, error) ==
    /\ emit(<<FileEvent("backup:failed", error, ops[i].file)>> \o catch(error))
    /\ finally
    /\ ops' = Remove(ops, i)
    /\ UNCHANGED <<intervalId, timers, immediates, uncaught, host>>

\* The same when saveToJSON throws before its await: backupFileName is
\* assigned already.
failedNamed(i, error, file) ==
    /\ emit(<<FileEvent("backup:failed", error, file)>> \o catch(error))
    /\ finally
    /\ ops' = Remove(ops, i)
    /\ UNCHANGED <<intervalId, timers, immediates, uncaught, host>>


\* What new Date() can return: the clock never runs backwards, and at most
\* MaxClock seconds pass during the exploration.
Readings == {Instant(sec, now.ms) : sec \in now.sec..Min(now.sec + 1, Epoch.sec + MaxClock)}

\* saveToJSON up to its await: the text is built and fs.writeFile is issued.
saveToJSON(i, data, backupFileName) ==
    \E serializable \in BOOLEAN :
        IF serializable
        THEN /\ ops' = [ops EXCEPT ![i].pc = "write",
                                   ![i].file = backupFileName,
                                   ![i].json = stringify(data, 2, 0)]
             /\ UNCHANGED <<manager, timers, immediates, uncaught, events,
                            emitted, host>>
        ELSE failedNamed(i, StringifyError, backupFileName)

\* Variant of afterEnsure: the accessor's value is not checked.
afterEnsureUnchecked(i) ==
    /\ \E date \in Readings :
          /\ now' = date
          /\ saveToJSON(i, students, generateBackupFileName(date))
    /\ UNCHANGED disk

\* After #ensureBackupDirectory resolved: the accessor is called and checked,
\* the file name computed from the clock and the write issued (second await).
afterEnsure(i) ==
    /\ IF ~isArray(students)
       THEN /\ failed(i, NotArrayError)
            /\ UNCHANGED now
       ELSE \E date \in Readings :
               /\ now' = date
               /\ saveToJSON(i, students, generateBackupFileName(date))
    /\ UNCHANGED disk

\* fs.access settles.
AccessDone(i) ==
    /\ alive
    /\ i \in DOMAIN ops
    /\ ops[i].pc = "access"
    /\ \/ /\ dirExists
          /\ afterEnsure(i)
          /\ UNCHANGED dirExists
       \/ /\ ~dirExists                       \* ENOENT: fs.mkdir is issued
          /\ ops' = [ops EXCEPT ![i].pc = "mkdir"]
          /\ UNCHANGED <<manager, timers, immediates, uncaught, events,
                         emitted, env, host>>
       \/ /\ failed(i, AccessError)           \* any other error is rethrown
          /\ UNCHANGED env

\* fs.mkdir(backupPath, { recursive: true }) settles.
MkdirDone(i) ==
    /\ alive
    /\ i \in DOMAIN ops
    /\ ops[i].pc = "mkdir"
    /\ \/ /\ dirExists' = TRUE
          /\ afterEnsure(i)
       \/ /\ failed(i, MkdirError)
          /\ UNCHANGED env

\* A file that was created or truncated and not written yet.
EmptyFile == <<>>

\* The file of that name now holds text.
Put(name, text) ==
    [n \in DOMAIN disk \cup {name} |-> IF n = name THEN text ELSE disk[n]]

\* fs.writeFile(absolutePath, json, "utf-8") opens the file under its final
\* name with flag "w": the file is created, or truncated when it exists.
WriteOpen(i) ==
    /\ alive
    /\ i \in DOMAIN ops
    /\ ops[i].pc = "write"
    /\ \/ /\ disk' = Put(ops[i].file, EmptyFile)
          /\ ops' = [ops EXCEPT ![i].pc = "writing"]
          /\ UNCHANGED <<manager, timers, immediates, uncaught, events,
                         emitted, host>>
       \/ /\ failed(i, WriteError)
          /\ UNCHANGED disk
    /\ UNCHANGED <<dirExists, now>>

\* fs.writeFile has written the text and closed the file, or failed half-way:
\* saveToJSON settles.
WriteDone(i) ==
    /\ alive
    /\ i \in DOMAIN ops
    /\ ops[i].pc = "writing"
    /\ \/ /\ disk' = Put(ops[i].file, ops[i].json)
          /\ completed(i)
       \/ /\ failed(i, WriteError)
          /\ UNCHANGED disk
    /\ UNCHANGED <<dirExists, now>>

\* Variant of start: the already-running check is missing.
startUnguarded ==
    /\ alive
    /\ NumCalls < MaxCalls
    /\ NumLaunched < MaxOps
    /\ emit(<<Event("backup:started", NoError)>>)
    /\ intervalId' = NewHandle
    /\ timers' = timers \cup {NewHandle}
    /\ performBackup("start", ops)
    /\ UNCHANGED <<immediates, uncaught, env, host>>

start ==
    /\ alive
    /\ NumCalls < MaxCalls
    /\ IF intervalId # Null
       THEN /\ emit(<<Event("backup:already-running", NoError)>>)
            /\ UNCHANGED <<manager, timers, ops, immediates, uncaught,
                           env, host>>
       ELSE /\ NumLaunched < MaxOps
            /\ emit(<<Event("backup:started", NoError)>>)
            /\ intervalId' = NewHandle
            /\ timers' = timers \cup {NewHandle}
            /\ performBackup("start", ops)
            /\ UNCHANGED <<immediates, uncaught, env, host>>

\* Variant of timeout: the timer is not cleared.
timeoutKeepsTimer(t) ==
    /\ timers' = timers
    /\ intervalId' = Null
    /\ isBackupInProgress' = FALSE
    /\ emit(<<Event("backup:timeout", TimeoutError(t))>>)
    /\ immediates' = Append(immediates, TimeoutError(t))

\* Variant of timeout: the error is only notified, never thrown.
timeoutSwallowed(t) ==
    /\ timers' = timers \ {intervalId}
    /\ intervalId' = Null
    /\ isBackupInProgress' = FALSE
    /\ emit(<<Event("backup:timeout", TimeoutError(t))>>)
    /\ immediates' = immediates

\* The overlap-timeout branch of the setInterval callback.
timeout(t) ==
    /\ timers' = timers \ {intervalId}
    /\ intervalId' = Null
    /\ isBackupInProgress' = FALSE
    /\ emit(<<Event("backup:timeout", TimeoutError(t))>>)
    /\ immediates' = Append(immediates, TimeoutError(t))

\* The setInterval callback, fired for armed timer t.  Timers run before the
\* check phase of the same loop iteration, so a pending setImmediate callback
\* runs before the next tick.
tick(t) ==
    /\ alive
    /\ t \in timers
    /\ immediates = <<>>
    /\ IF isBackupInProgress
       THEN /\ pendingIntervalsCount' = pendingIntervalsCount + 1
            /\ ops' = Witnessed(ops)
            /\ IF pendingIntervalsCount + 1 >= OverlapThreshold
               THEN timeout(t)
               ELSE UNCHANGED <<intervalId, isBackupInProgress, timers,
                                immediates, events, emitted>>
            /\ UNCHANGED <<uncaught, env, host>>
       ELSE /\ NumLaunched < MaxOps
            /\ performBackup("tick", Witnessed(ops))
            /\ UNCHANGED <<intervalId, timers, immediates, uncaught, events,
                           emitted, env, host>>

\* setImmediate(() => { throw error; })
throwImmediate ==
    /\ alive
    /\ immediates # <<>>
    /\ uncaught' = Append(uncaught, Head(immediates))
    /\ immediates' = Tail(immediates)
    /\ UNCHANGED <<manager, timers, ops, events, emitted, env, host>>

\* Variant of stop: stopping also discards the operations in flight.
stopCancelling ==
    /\ alive
    /\ NumCalls < MaxCalls
    /\ IF intervalId = Null
       THEN /\ emit(<<Event("backup:not-running", NoError)>>)
            /\ UNCHANGED <<manager, timers, ops>>
       ELSE /\ timers' = timers \ {intervalId}
            /\ intervalId' = Null
            /\ emit(<<Event("backup:stopped", NoError)>>)
            /\ ops' = <<>>
            /\ UNCHANGED <<isBackupInProgress, pendingIntervalsCount>>
    /\ UNCHANGED <<immediates, uncaught, env, host>>

\* Variant of stop: the not-running check is missing.
stopUnguarded ==
    /\ alive
    /\ NumCalls < MaxCalls
    /\ timers' = timers \ {intervalId}
    /\ intervalId' = Null
    /\ emit(<<Event("backup:stopped", NoError)>>)
    /\ UNCHANGED <<isBackupInProgress, pendingIntervalsCount, ops, immediates,
                   uncaught, env, host>>

stop ==
    /\ alive
    /\ NumCalls < MaxCalls
    /\ IF intervalId = Null
       THEN /\ emit(<<Event("backup:not-running", NoError)>>)
            /\ UNCHANGED <<manager, timers>>
       ELSE /\ timers' = timers \ {intervalId}
            /\ intervalId' = Null
            /\ emit(<<Event("backup:stopped", NoError)>>)
            /\ UNCHANGED <<isBackupInProgress, pendingIntervalsCount>>
    /\ UNCHANGED <<ops, immediates, uncaught, env, host>>

----------------------------------------------------------------------------

\* let backupManager = null; a Manager is <<m>>, m its private fields that
\* never change.
NoManager == <<>>

\* No file was requested from the live server and no backup route was
\* called: this.buffer and this.injected are undefined (read as '' and as
\* false), backupManager is null.
NoTraffic ==
    /\ html = <<>>
    /\ readStream = <<>>
    /\ buffer = <<>>
    /\ injected = FALSE
    /\ res = [chunks |-> <<>>, ended |-> FALSE]
    /\ backupManager = NoManager
    /\ responses = <<>>

Init ==
    /\ intervalId = Null
    /\ isBackupInProgress = FALSE
    /\ pendingIntervalsCount = 0
    /\ timers = {}
    /\ ops = <<>>
    /\ immediates = <<>>
    /\ uncaught = <<>>
    /\ events = <<>>
    /\ emitted = <<>>
    /\ dirExists \in BOOLEAN
    /\ disk = NoFiles
    /\ handler \in BOOLEAN
    /\ now = Epoch
    /\ tz = 0
    /\ students \in {SampleStudents, NotAnArray}
    /\ fileName = NoFile
    /\ parsed = <<>>
    /\ loaded = <<>>
    /\ run = NotCalled
    /\ report = <<>>
    /\ NoTraffic

Tick == \E t \in timers : tick(t)
Access == \E i \in DOMAIN ops : AccessDone(i)
Mkdir == \E i \in DOMAIN ops : MkdirDone(i)
Open == \E i \in DOMAIN ops : WriteOpen(i)
Write == \E i \in DOMAIN ops : WriteDone(i)

Next ==
    \/ start
    \/ stop
    \/ Tick
    \/ throwImmediate
    \/ Access
    \/ Mkdir
    \/ Open
    \/ Write

Spec == Init /\ [][Next]_vars

----------------------------------------------------------------------------
\* The file name of a snapshot and the time the Reporter derives from it, for
\* sample instants and time zones: the Manager names a snapshot taken at the
\* instant now, then the Reporter parses that name.

\* A Manager that was never started.
Idle ==
    /\ intervalId = Null
    /\ isBackupInProgress = FALSE
    /\ pendingIntervalsCount = 0
    /\ timers = {}
    /\ ops = <<>>
    /\ immediates = <<>>
    /\ uncaught = <<>>
    /\ events = <<>>
    /\ emitted = <<>>
    /\ handler = FALSE

process == <<manager, timers, ops, immediates, uncaught, events, emitted, handler>>

\* A leap day, a last day of the year and a summer day; midnight, an
\* afternoon and the last second of the day; on the second and just before
\* the next one.
SampleDays == {DaysFromCivil(2024, 2, 29), DaysFromCivil(2024, 12, 31),
               DaysFromCivil(2025, 6, 15)}
SampleSeconds == {0, 12 * 3600 + 34 * 60 + 56, SecondsPerDay - 1}
SampleInstants ==
    {Instant(d * SecondsPerDay + sec, ms) :
        d \in SampleDays, sec \in SampleSeconds, ms \in {0, 999}}

\* Minutes east of UTC: New York in winter, UTC, Paris in winter.
TimeZones == {0 - 300, 0, 60}

InitNames ==
    /\ Idle
    /\ dirExists = TRUE
    /\ disk = NoFiles
    /\ now \in SampleInstants
    /\ tz \in TimeZones
    /\ students = SampleStudents
    /\ fileName = NoFile
    /\ parsed = <<>>
    /\ loaded = <<>>
    /\ run = NotCalled
    /\ report = <<>>
    /\ NoTraffic

\* backupFileName = this.#generateBackupFileName()
generate ==
    /\ fileName = NoFile
    /\ fileName' = generateBackupFileName(now)
    /\ UNCHANGED <<process, env, tz, server, api, students, parsed, loaded, run, report>>

\* fileDate = this.#parseTimestampFromFilename(filePath)
parse ==
    /\ fileName # NoFile
    /\ parsed = <<>>
    /\ parsed' = <<parseTimestampFromFilename(fileName, tz)>>
    /\ UNCHANGED <<process, env, tz, server, api, students, fileName, loaded, run, report>>

NextNames ==
    \/ generate
    \/ parse

SpecNames == InitNames /\ [][NextNames]_vars

----------------------------------------------------------------------------
\* A snapshot written and read back, for sample collections: a successful
\* operation of the Manager writes the collection, then loadJSON parses the
\* file.

\* The values a field of a record takes: names with characters that need
\* escaping, numbers of several digits and negative ones, and the fields a
\* sparse students.json leaves null or undefined.
SampleNames == {Str(<<"A", "n", "n">>), Str(<<"\"", "\\", "o">>), Str(<<"a", "\n", " ">>)}
SampleAges == {Num(0), Num(23), Undefined}
SampleGroups == {Num(105), Num(0 - 4), JNull}
SampleRecords ==
    {Student(Str(<<"1">>), name, age, group) :
        name \in SampleNames, age \in SampleAges, group \in SampleGroups}

\* The longest collection written.
MaxStudents == 2

SampleCollections ==
    {Arr(items) : items \in UNION {[1..n -> SampleRecords] : n \in 0..MaxStudents}}

InitJSON ==
    /\ Idle
    /\ dirExists = TRUE
    /\ disk = NoFiles
    /\ now = Epoch
    /\ tz = 0
    /\ students \in SampleCollections
    /\ fileName = NoFile
    /\ parsed = <<>>
    /\ loaded = <<>>
    /\ run = NotCalled
    /\ report = <<>>
    /\ NoTraffic

\* await saveToJSON(students, backupFilePath), from the call of the accessor
\* to the end of a successful write.
written ==
    /\ fileName = NoFile
    /\ isArray(students)
    /\ fileName' = generateBackupFileName(now)
    /\ disk' = Put(fileName', stringify(students, 2, 0))
    /\ UNCHANGED <<process, dirExists, now, tz, server, api, students, parsed, loaded, run,
                   report>>

\* loadJSON(filePath) in directory dir: the value parsed, Fail when the file
\* cannot be read or its text is no JSON.
loadFrom(dir, name) == IF name \in DOMAIN dir THEN JSONparse(dir[name]) ELSE Fail
loadJSON(name) == loadFrom(disk, name)

\* const students = await loadJSON(filePath)
load ==
    /\ fileName # NoFile
    /\ loaded = <<>>
    /\ loaded' = <<loadJSON(fileName)>>
    /\ UNCHANGED <<process, env, tz, server, api, students, fileName, parsed, run, report>>

NextJSON ==
    \/ written
    \/ load

SpecJSON == InitJSON /\ [][NextJSON]_vars

----------------------------------------------------------------------------
\* BackupReporter

\* How a call ended: with a value, or with an exception.
Returned(value) == <<"returned", value>>
Thrown(error) == <<"thrown", error>>

\* latestDate.toISOString() of an invalid Date.
RangeError == <<"RangeError: Invalid time value", 0>>

\* { amountOfBackupFiles: 0, message: "No backup files found." }
NoBackups == [amountOfBackupFiles |-> 0, message |-> "No backup files found."]

\* All the orders in which the elements of a set can be listed.
Orders(S) ==
    {o \in [1..Cardinality(S) -> S] : \A j, k \in DOMAIN o : j # k => o[j] # o[k]}

\* Variant of getBackupFiles: every directory entry is taken.
getBackupFilesUnfiltered(listing) == listing

\* #getBackupFiles on a listing of the directory: the entries with the
\* snapshot suffix, in the order of the listing.
getBackupFiles(listing) == SelectSeq(listing, LAMBDA file : EndsWith(file, BackupSuffix))

\* JavaScript truthiness.
Truthy(v) ==
    CASE Type(v) \in {"undefined", "null"} -> FALSE
      [] Type(v) = "boolean" -> v[2]
      [] Type(v) = "number" -> v[2] # 0
      [] Type(v) = "string" -> v[2] # <<>>
      [] OTHER -> TRUE

\* The property key an id is used as.  (Ids are strings, numbers or booleans
\* here.)
ToKey(id) ==
    CASE Type(id) = "string" -> id[2]
      [] Type(id) = "number" -> NumberToString(id[2])
      [] Type(id) = "boolean" -> IF id[2] THEN <<"t", "r", "u", "e">>
                                 ELSE <<"f", "a", "l", "s", "e">>

\* student && student.id
HasId(student) == Truthy(student) /\ Truthy(Get(student, IdKey))

\* studentIdCounts after the forEach over the records of one file.
Counted(counts, records) ==
    LET keys == {ToKey(Get(records[j], IdKey)) : j \in {i \in DOMAIN records : HasId(records[i])}}
        before(k) == IF k \in DOMAIN counts THEN counts[k] ELSE 0
        here(k) == Cardinality({j \in DOMAIN records :
                                  HasId(records[j]) /\ ToKey(Get(records[j], IdKey)) = k})
    IN  [k \in DOMAIN counts \cup keys |-> before(k) + here(k)]

\* fileDate > latestDate: false when either time value is NaN.
Later(a, b) ==
    /\ a.valid /\ b.valid
    /\ a.sec > b.sec \/ (a.sec = b.sec /\ a.ms > b.ms)

\* One turn of the loop over backupFiles, reading directory dir.
visit(acc, dir, offset) ==
    LET filePath == Head(acc.backupFiles)
        rest == [acc EXCEPT !.backupFiles = Tail(@)]
        file == loadFrom(dir, filePath)
        records == file.value[2]
        fileDate == parseTimestampFromFilename(filePath, offset)
        newer == acc.latestDate = <<>> \/ Later(fileDate, acc.latestDate[1])
    IN  IF ~file.ok \/ ~isArray(file.value) THEN rest
        ELSE [rest EXCEPT
                 !.latestDate = IF newer THEN <<fileDate>> ELSE @,
                 !.latestFile = IF newer THEN filePath ELSE @,
                 !.studentIdCounts = Counted(@, records),
                 !.totalStudents = @ + Len(records),
                 !.totalFilesWithStudents = IF Len(records) > 0 THEN @ + 1 ELSE @]

\* a.localeCompare(b) < 0 for strings of digits and unaccented letters: the
\* characters compare in collation order, a proper prefix comes first.
Collation == Digits \o <<"a", "A", "b", "B", "n", "N", "o", "O">>
Rank(c) == CHOOSE j \in DOMAIN Collation : Collation[j] = c
RECURSIVE LocaleLess(_, _)
LocaleLess(a, b) ==
    IF b = <<>> THEN FALSE
    ELSE IF a = <<>> THEN TRUE
    ELSE IF Head(a) = Head(b) THEN LocaleLess(Tail(a), Tail(b))
    ELSE Rank(Head(a)) < Rank(Head(b))

\* Object.entries(studentIdCounts).map(...).sort(...)
RECURSIVE Sorted(_)
Sorted(counts) ==
    IF DOMAIN counts = {} THEN <<>>
    ELSE LET first == CHOOSE k \in DOMAIN counts :
                          \A other \in DOMAIN counts \ {k} : LocaleLess(k, other)
         IN  <<[id |-> first, amount |-> counts[first]]>>
             \o Sorted([k \in DOMAIN counts \ {first} |-> counts[k]])

\* parseFloat(averageAmount.toFixed(2)), in hundredths.
Average(total, files) ==
    IF files > 0 THEN (200 * total + files) \div (2 * files) ELSE 0

\* The return statement of generateReport.
result(acc, amountOfBackupFiles) ==
    IF acc.latestDate # <<>> /\ ~acc.latestDate[1].valid THEN Thrown(RangeError)
    ELSE Returned(
           [amountOfBackupFiles |-> amountOfBackupFiles,
            latestBackupFile |-> acc.latestFile,
            latestBackupDatetime |-> IF acc.latestDate = <<>> THEN NoFile
                                     ELSE toISOString(acc.latestDate[1]),
            studentsGroupedById |-> Sorted(acc.studentIdCounts),
            averageAmountOfStudents |->
                Average(acc.totalStudents, acc.totalFilesWithStudents)])

\* generateReport on a directory that does not change, listed in the given
\* order: every file of backupFiles is visited, then the report is built.
RECURSIVE visitAll(_, _, _)
visitAll(acc, dir, offset) ==
    IF acc.backupFiles = <<>> THEN acc ELSE visitAll(visit(acc, dir, offset), dir, offset)

generateReportOn(dir, exists, listing, offset) ==
    LET backupFiles == IF exists THEN getBackupFiles(listing) ELSE <<>>
        begin == Locals("loop", backupFiles, NoFile, <<>>, NoCounts, 0, 0)
    IN  IF backupFiles = <<>> THEN Returned(NoBackups)
        ELSE result(visitAll(begin, dir, offset), Len(backupFiles))

\* generateReport from its call to its first await: fs.readdir is issued.
generateReport ==
    /\ run.pc = "idle"
    /\ report = <<>>
    /\ run' = [run EXCEPT !.pc = "readdir"]
    /\ UNCHANGED <<process, env, tz, server, api, students, fileName, parsed, loaded, report>>

\* fs.readdir settles, with ENOENT when the directory does not exist; the
\* order of a listing is the file system's.  With no backup file the report
\* is returned, else the first loadJSON is issued.
ReaddirDone ==
    /\ run.pc = "readdir"
    /\ \E listing \in Orders(DOMAIN disk) :
          LET backupFiles == IF dirExists THEN getBackupFiles(listing) ELSE <<>>
          IN  IF backupFiles = <<>>
              THEN /\ report' = Append(report, Returned(NoBackups))
                   /\ run' = [run EXCEPT !.pc = "done"]
              ELSE /\ run' = Locals("loop", backupFiles, NoFile, <<>>, NoCounts, 0, 0)
                   /\ UNCHANGED report
    /\ UNCHANGED <<process, env, tz, server, api, students, fileName, parsed, loaded>>


\* loadJSON of the next file settles and the loop body runs; after the last
\* file the report is built.
FileDone ==
    /\ run.pc = "loop"
    /\ LET acc == visit(run, disk, tz)
       IN  IF acc.backupFiles # <<>>
           THEN /\ run' = acc
                /\ UNCHANGED report
           ELSE /\ run' = [acc EXCEPT !.pc = "done"]
                /\ report' = Append(report, result(acc, acc.amountOfBackupFiles))
    /\ UNCHANGED <<process, env, tz, server, api, students, fileName, parsed, loaded>>

\* The directory entries of the exploration: a snapshot named by the Manager,
\* a snapshot named by its date alone, a file that has the suffix and not the
\* pattern, and a file without the suffix.
ManagerName == generateBackupFileName(Epoch)
DateName == BackupPrefix \o <<"2", "0", "2", "5", "-", "0", "1", "-", "0", "2">> \o BackupSuffix
ForeignName == <<"n", "o", "t", "e", "s">> \o BackupSuffix
OtherName == <<"r", "e", "a", "d", "m", "e", ".", "t", "x", "t">>
SampleEntries == {ManagerName, DateName, ForeignName, OtherName}

\* What a file holds: a collection of two records, an empty collection, an
\* object, or a text that is no JSON.
SampleTexts == {stringify(SampleStudents, 2, 0), stringify(Arr(<<>>), 2, 0),
                stringify(NotAnArray, 2, 0), EmptyFile}

SampleDirectories ==
    UNION {[entries -> SampleTexts] : entries \in SUBSET SampleEntries}

InitReport ==
    /\ Idle
    /\ dirExists \in BOOLEAN
    /\ disk \in SampleDirectories
    /\ ~dirExists => disk = NoFiles
    /\ now = Epoch
    /\ tz = 0
    /\ students = SampleStudents
    /\ fileName = NoFile
    /\ parsed = <<>>
    /\ loaded = <<>>
    /\ run = NotCalled
    /\ report = <<>>
    /\ NoTraffic

NextReport ==
    \/ generateReport
    \/ ReaddirDone
    \/ FileDone

SpecReport == InitReport /\ [][NextReport]_vars

----------------------------------------------------------------------------
\* generateReport() on directories of snapshots that parse: what the report
\* says of the latest file, of the ids and of the average.

\* Two more names the Reporter takes: the day after DateName, and DateName
\* without the prefix, which gives the same time.
NextDayName == BackupPrefix \o <<"2", "0", "2", "5", "-", "0", "1", "-", "0", "3">> \o BackupSuffix
BareName == <<"2", "0", "2", "5", "-", "0", "1", "-", "0", "2">> \o BackupSuffix
CensusEntries == {ManagerName, DateName, NextDayName, BareName}

\* A collection of records that hold an id only.
Ids(ns) == Arr([j \in DOMAIN ns |-> Obj(<<<<IdKey, Num(ns[j])>>>>)])

\* Collections with an id that occurs twice, with ids of one and of two
\* digits, with the id 0, and without records.
CensusTexts == {stringify(Ids(<<1, 2, 2, 3>>), 2, 0), stringify(Ids(<<2, 3, 3>>), 2, 0),
                stringify(Ids(<<10, 2>>), 2, 0), stringify(Ids(<<0>>), 2, 0),
                stringify(Arr(<<>>), 2, 0)}

CensusDirectories ==
    UNION {[entries -> CensusTexts] : entries \in SUBSET CensusEntries}

InitCensus ==
    /\ Idle
    /\ dirExists = TRUE
    /\ disk \in CensusDirectories
    /\ now = Epoch
    /\ tz = 0
    /\ students = SampleStudents
    /\ fileName = NoFile
    /\ parsed = <<>>
    /\ loaded = <<>>
    /\ run = NotCalled
    /\ report = <<>>
    /\ NoTraffic

SpecCensus == InitCensus /\ [][NextReport]_vars

----------------------------------------------------------------------------
\* The live server: an HTML file is piped through injectScriptTransform
\* into the response.

\* The longest run of chunks a file is delivered in.
MaxChunks == 3

\* How many characters transform() holds back.
BufferLength == 10

\* The reload script, one unit of text: it holds neither "</body>" nor "$".
WEBSOCKET_CLIENT_SCRIPT == <<"\n<script>(function() { ... })();</script>\n">>

BodyTag == <<"<", "/", "b", "o", "d", "y", ">">>

\* data.includes(p)
includes(data, p) == IndexOf(data, p) # 0

\* data.slice(-k) and data.slice(0, -k)
sliceLast(data, k) == SubSeq(data, Len(data) - Min(k, Len(data)) + 1, Len(data))
sliceFirst(data, k) == SubSeq(data, 1, Len(data) - Min(k, Len(data)))

\* transform(chunk, encoding, callback) on the next chunk of the file.
transform ==
    /\ readStream # <<>>
    /\ ~res.ended
    /\ LET data == buffer \o Head(readStream)
       IN  IF includes(data, BodyTag)
           THEN /\ res' = [res EXCEPT !.chunks = Append(@,
                               ReplaceFirst(data, BodyTag,
                                            WEBSOCKET_CLIENT_SCRIPT \o <<"\n">> \o BodyTag))]
                /\ injected' = TRUE
                /\ buffer' = <<>>
           ELSE /\ buffer' = sliceLast(data, BufferLength)
                /\ res' = [res EXCEPT !.chunks = Append(@, sliceFirst(data, BufferLength))]
                /\ UNCHANGED injected
    /\ readStream' = Tail(readStream)
    /\ UNCHANGED <<process, env, tz, api, students, fileName, parsed, loaded, run, report,
                   html>>

\* flush(callback) at the end of the file; the pipe then ends the response.
flush ==
    /\ readStream = <<>>
    /\ ~res.ended
    /\ res' = [chunks |-> Append(res.chunks,
                                 IF ~injected THEN buffer \o WEBSOCKET_CLIENT_SCRIPT
                                 ELSE buffer),
               ended |-> TRUE]
    /\ UNCHANGED <<process, env, tz, api, students, fileName, parsed, loaded, run, report,
                   html, readStream, buffer, injected>>

\* The ways of cutting a text into at most MaxChunks chunks, none empty.
CutsOf(s, k) ==
    {c \in [1..k -> 1..(Len(s) - 1)] : \A j \in 1..(k - 1) : c[j] < c[j + 1]}
Chunked(s, c) ==
    [j \in 1..(Len(c) + 1) |->
        SubSeq(s, IF j = 1 THEN 1 ELSE c[j - 1] + 1,
                  IF j = Len(c) + 1 THEN Len(s) ELSE c[j])]
Splits(s) ==
    IF s = <<>> THEN {<<>>}
    ELSE UNION {{Chunked(s, c) : c \in CutsOf(s, k)} : k \in 0..(MaxChunks - 1)}

\* A page with text before and after its closing body tag, a fragment
\* without the tag, a page with "</body>" in a comment before the tag, the
\* tag alone, and an empty file.
PageWithBody ==
    <<"<", "b", "o", "d", "y", ">", "0", "1", "2", "3", "4", "5", "6", "7",
      "8", "9", "a", "b", "<", "/", "b", "o", "d", "y", ">", "<", "/", "h",
      "t", "m", "l", ">">>
Fragment ==
    <<"<", "p", ">", "0", "1", "2", "3", "4", "5", "6", "7", "8", "9", "a",
      "b", "c", "d", "e", "f", "<", "/", "p", ">">>
PageWithComment ==
    <<"<", "!", "-", "-", "<", "/", "b", "o", "d", "y", ">", "-", "-", ">",
      "0", "1", "2", "3", "4", "5", "6", "7", "8", "9", "<", "/", "b", "o",
      "d", "y", ">">>
SampleDocuments == {PageWithBody, Fragment, PageWithComment, BodyTag, <<>>}

InitInject ==
    /\ Idle
    /\ dirExists = TRUE
    /\ disk = NoFiles
    /\ now = Epoch
    /\ tz = 0
    /\ students = SampleStudents
    /\ fileName = NoFile
    /\ parsed = <<>>
    /\ loaded = <<>>
    /\ run = NotCalled
    /\ report = <<>>
    /\ html \in SampleDocuments
    /\ readStream \in Splits(html)
    /\ buffer = <<>>
    /\ injected = FALSE
    /\ res = [chunks |-> <<>>, ended |-> FALSE]
    /\ backupManager = NoManager
    /\ responses = <<>>

NextInject ==
    \/ transform
    \/ flush

SpecInject == InitInject /\ [][NextInject]_vars

----------------------------------------------------------------------------
\* The API server: the record store of student.js and the backup routes.

\* The most requests the backup routes answer.
MaxRequests == 3

\* intervalMs = 30000 when the request names no interval.
DefaultInterval == 30000

\* res.status(code).json({ message, status, interval }); interval 0 stands
\* for a body without that field, error bodies hold the message only.
Answer(code, message, status, interval) ==
    [code |-> code, message |-> message, status |-> status, interval |-> interval]

\* parseInt(interval) of a request field: a number is its own value here,
\* a string is parsed.
parseIntOf(v) ==
    CASE Type(v) = "number" -> v[2]
      [] Type(v) = "string" -> parseInt(v[2])
      [] OTHER -> NaN

\* The interval fields sent: none, 5 and 60 seconds, and a word.
SampleIntervals == {Undefined, Num(5), Num(60), Str(<<"x">>)}

\* startBackupManager(intervalMs): the first call constructs the Manager
\* and calls start() on it, which arms its timer and launches the first
\* snapshot; later calls do nothing.
startBackupManager(intervalMs) ==
    IF backupManager = NoManager
    THEN /\ backupManager' = <<[backupInterval |-> intervalMs]>>
         /\ emit(<<Event("backup:started", NoError)>>)
         /\ intervalId' = NewHandle
         /\ timers' = timers \cup {NewHandle}
         /\ performBackup("start", ops)
    ELSE UNCHANGED <<backupManager, manager, timers, ops, events, emitted>>

\* stopBackupManager() on a running Manager: stop() disarms the timer.
stopBackupManager ==
    /\ timers' = timers \ {intervalId}
    /\ intervalId' = Null
    /\ emit(<<Event("backup:stopped", NoError)>>)
    /\ UNCHANGED <<backupManager, isBackupInProgress, pendingIntervalsCount, ops>>

respond(answer) == responses' = Append(responses, answer)

\* POST /api/backup/start
postStart ==
    /\ alive
    /\ immediates = <<>>
    /\ Len(responses) < MaxRequests
    /\ \E interval \in SampleIntervals :
          LET intervalMs == IF Truthy(interval) THEN parseIntOf(interval) * 1000
                            ELSE DefaultInterval
          IN  IF Truthy(interval) /\ (parseIntOf(interval) = NaN \/ intervalMs < 1000)
              THEN /\ respond(Answer(400, "Interval must be a number >= 1 (in seconds)",
                                     "", 0))
                   /\ UNCHANGED <<backupManager, manager, timers, ops, events, emitted>>
              ELSE IF backupManager # NoManager /\ isRunning
              THEN /\ respond(Answer(200, "Backup manager is already running", "running", 0))
                   /\ UNCHANGED <<backupManager, manager, timers, ops, events, emitted>>
              ELSE /\ startBackupManager(intervalMs)
                   /\ respond(Answer(200, "Backup manager started", "running",
                                     intervalMs \div 1000))
    /\ UNCHANGED <<immediates, uncaught, env, handler, tz, students, fileName, parsed,
                   loaded, run, report, server>>

\* POST /api/backup/stop
postStop ==
    /\ alive
    /\ immediates = <<>>
    /\ Len(responses) < MaxRequests
    /\ IF backupManager = NoManager \/ ~isRunning
       THEN /\ respond(Answer(200, "Backup manager is not running", "stopped", 0))
            /\ UNCHANGED <<backupManager, manager, timers, ops, events, emitted>>
       ELSE /\ stopBackupManager
            /\ respond(Answer(200, "Backup manager stopped", "stopped", 0))
    /\ UNCHANGED <<immediates, uncaught, env, handler, tz, students, fileName, parsed,
                   loaded, run, report, server>>

\* addStudent(name, age, group) up to its await: the record is pushed.
addStudent ==
    /\ alive
    /\ Len(students[2]) < MaxStudents
    /\ LET id == Str(NumberToString(Len(students[2]) + 1))
       IN  students' = Arr(Append(students[2], Student(id, Str(<<"A", "n", "n">>), Num(23), Num(4))))
    /\ UNCHANGED <<process, env, tz, server, api, fileName, parsed, loaded, run, report>>

\* removeStudent(id) up to its await: the first record of that id is
\* spliced out, if there is one.
removeStudent ==
    /\ alive
    /\ \E n \in 1..(MaxStudents + 1) :
          LET id == Str(NumberToString(n))
              at == {j \in DOMAIN students[2] : Get(students[2][j], IdKey) = id}
          IN  /\ at # {}
              /\ students' = Arr(Remove(students[2], CHOOSE j \in at : \A k \in at : j <= k))
    /\ UNCHANGED <<process, env, tz, server, api, fileName, parsed, loaded, run, report>>

\* The store after loadStudents(): students.json is missing, or holds the
\* sample collection.
InitService ==
    /\ Idle
    /\ dirExists = TRUE
    /\ disk = NoFiles
    /\ now = Epoch
    /\ tz = 0
    /\ students \in {Arr(<<>>), SampleStudents}
    /\ fileName = NoFile
    /\ parsed = <<>>
    /\ loaded = <<>>
    /\ run = NotCalled
    /\ report = <<>>
    /\ NoTraffic

NextService ==
    \/ postStart
    \/ postStop
    \/ addStudent
    \/ removeStudent
    \/ Tick
    \/ throwImmediate

SpecService == InitService /\ [][NextService]_vars

----------------------------------------------------------------------------
\* Vocabulary of the properties.

\* The channel names emitted by the step, in order.
Fresh == SubSeq(events', Len(events) + 1, Len(events'))

\* The step finished invocation i: it left the set of invocations in flight.
Finished(i) == i \in DOMAIN ops /\ ops' = Remove(ops, i)

\* The step entered #performBackup: a new invocation is in flight.
Entered == Len(ops') = Len(ops) + 1

Last(s) == s[Len(s)]

\* Position of the latest "backup:timeout" in the stream (0: none).
LastTimeout ==
    LET at == {j \in DOMAIN events : events[j] = "backup:timeout"}
    IN  IF at = {} THEN 0 ELSE CHOOSE j \in at : \A k \in at : k <= j

\* The Manager was shut down by the overlap timeout and not started since.
ForcedStop ==
    /\ LastTimeout # 0
    /\ \A j \in (LastTimeout + 1)..Len(events) : events[j] # "backup:started"

----------------------------------------------------------------------------
\* C1: at most one snapshot operation (#performBackup) of the Manager is in
\* flight at any time, whatever the sequence of start(), stop(), ticks,
\* completions, failures and timeout-forced shutdowns.
C1_AtMostOneInFlight == Len(ops) <= 1

\* C2: once an operation has stayed in flight for three intervals, exactly one
\* "backup:timeout" was emitted for that run, isRunning() is false, and no
\* snapshot notification (completed, failed, error) follows the forced stop
\* for as long as the Manager is not started again.
C2_ForcedStopIsSilent ==
    ForcedStop =>
        /\ ~isRunning
        /\ \A j \in (LastTimeout + 1)..Len(events) : events[j] \notin SnapshotNames
        /\ Count(events, {"backup:timeout"}) <= Count(events, {"backup:started"})

\* C3: start() on a running Manager emits "backup:already-running" and nothing
\* else: no "backup:started", no timer armed, no operation launched, no
\* Manager state changed.
C3_SecondStartIsInert ==
    [][(start /\ isRunning) =>
          /\ Fresh = <<"backup:already-running">>
          /\ Count(events', {"backup:started"}) = Count(events, {"backup:started"})
          /\ UNCHANGED <<manager, timers, ops, immediates, uncaught>>]_vars

C3_Witness ==
    /\ events = <<"backup:started", "backup:already-running">>
    /\ Cardinality(timers) = 1
    /\ Len(ops) = 1

\* C4: start() on a not-running Manager launches the first operation inside
\* the call itself (no tick is needed), raises nothing to its caller, and a
\* failure of that operation is delivered as "backup:error" carrying the
\* error and is not raised anywhere.
C4_ImmediateFirstSnapshot ==
    [][/\ (start /\ ~isRunning) =>
              /\ Entered
              /\ Last(ops').by = "start"
              /\ isBackupInProgress'
              /\ uncaught' = uncaught /\ immediates' = immediates
       /\ \A i \in DOMAIN ops :
              (Finished(i) /\ ops[i].by = "start" /\ Fresh # <<"backup:completed">>) =>
                  /\ Fresh = <<"backup:failed", "backup:error">>
                  /\ emitted'[2] = Event("backup:error", emitted'[1].err)
                  /\ emitted'[1].err # NoError
                  /\ uncaught' = uncaught /\ immediates' = immediates]_vars

C4_Witness ==
    /\ events = <<"backup:started", "backup:failed", "backup:error">>
    /\ uncaught = <<>>
    /\ isRunning

\* C5: stop() on a running Manager disarms the timer and leaves the operation
\* in flight alone; an operation finishing while the Manager is stopped still
\* emits its "backup:completed" or "backup:failed".
C5_StopDoesNotCancel ==
    [][/\ (stop /\ isRunning) =>
              /\ Fresh = <<"backup:stopped">>
              /\ timers' = {}
              /\ ~isRunning'
              /\ ops' = ops
       /\ \A i \in DOMAIN ops :
              (Finished(i) /\ ~isRunning /\ ~ForcedStop) =>
                  \/ Fresh = <<"backup:completed">>
                  \/ Fresh = <<"backup:failed", "backup:error">>]_vars

C5_Witness ==
    /\ events = <<"backup:started", "backup:stopped", "backup:completed">>
    /\ ops = <<>>

\* C6: stop() on a Manager that is not running (never started, stopped, or
\* shut down by the timeout) emits "backup:not-running", raises nothing and
\* changes no state.
C6_StopWhenNotRunning ==
    [][(stop /\ ~isRunning) =>
          /\ Fresh = <<"backup:not-running">>
          /\ UNCHANGED <<manager, timers, ops, immediates, uncaught, env>>]_vars

C6_Witness ==
    /\ ForcedStop
    /\ Last(events) = "backup:not-running"

\* C7: isRunning() is true exactly when one timer of the Manager is armed,
\* never more than one timer is armed, and isRunning() is false after a
\* timeout-forced shutdown.
C7_RunningIffTimerArmed ==
    /\ Cardinality(timers) <= 1
    /\ isRunning <=> Cardinality(timers) = 1
    /\ isRunning => timers = {intervalId}
    /\ ForcedStop => ~isRunning

C7_Witness ==
    /\ ForcedStop
    /\ timers = {}
    /\ Count(events, {"backup:started"}) = 2

\* C8: the overlap counter is zero after the entry and after the completion of
\* every operation, while an operation holds the in-flight flag the counter
\* equals the number of ticks that this one operation (the latest entered)
\* has seen, and the timeout fires only on the third tick seen by it.
C8_TimeoutCountsOneOperation ==
    /\ [](isBackupInProgress =>
              /\ ops # <<>>
              /\ pendingIntervalsCount = Last(ops).seen)
    /\ [][/\ Entered => pendingIntervalsCount' = 0
          /\ (\E i \in DOMAIN ops : Finished(i)) => pendingIntervalsCount' = 0
          /\ ("backup:timeout" \in {Fresh[j] : j \in DOMAIN Fresh}) =>
                 /\ ops' # <<>>
                 /\ Last(ops').seen = OverlapThreshold
                 /\ Last(ops) = [Last(ops') EXCEPT !.seen = OverlapThreshold - 1]]_vars

C8_Witness ==
    /\ ForcedStop
    /\ Count(events, {"backup:completed", "backup:failed"}) >= 1
    /\ LastTimeout = Len(events)
    /\ Len(ops) = 1

\* C9: the failure of an operation launched by a tick emits "backup:error" and
\* leaves the timer armed and the in-flight flag clear; a tick that finds the
\* flag clear launches an operation; isRunning() turns false only in a step
\* that emits "backup:stopped" or "backup:timeout".
C9_FailureKeepsSchedule ==
    [][/\ \A i \in DOMAIN ops :
              (Finished(i) /\ ops[i].by = "tick" /\ Fresh # <<"backup:completed">>) =>
                  /\ Fresh = <<"backup:failed", "backup:error">>
                  /\ intervalId' = intervalId /\ timers' = timers
                  /\ ~isBackupInProgress'
       /\ (Tick /\ ~isBackupInProgress) => (Entered /\ Last(ops').by = "tick")
       /\ (isRunning /\ ~isRunning') =>
              (Fresh = <<"backup:stopped">> \/ Fresh = <<"backup:timeout">>)]_vars

C9_Witness ==
    /\ events = <<"backup:started", "backup:completed", "backup:failed", "backup:error">>
    /\ isRunning
    /\ ~isBackupInProgress
    /\ ops = <<>>

\* C10: the tick on which the overlap counter reaches 3 disarms the timer,
\* clears the running state, emits "backup:timeout" carrying the error,
\* schedules that same error to be thrown outside any catch context, and
\* launches nothing; the scheduled throw raises the error uncaught, and the
\* timer that timed out is never armed again.
C10_TimeoutIsFatal ==
    /\ [][/\ (pendingIntervalsCount < OverlapThreshold
                /\ pendingIntervalsCount' >= OverlapThreshold) =>
                 /\ timers' = {} /\ intervalId' = Null /\ ~isRunning'
                 /\ Fresh = <<"backup:timeout">>
                 /\ immediates' = Append(immediates, emitted'[1].err)
                 /\ emitted'[1].err = TimeoutError(intervalId)
                 /\ Len(ops') = Len(ops)
          /\ (immediates' # immediates /\ Len(immediates') <= Len(immediates)) =>
                 /\ immediates' = Tail(immediates)
                 /\ uncaught' = Append(uncaught, Head(immediates))]_vars
    /\ [](\A j \in DOMAIN (immediates \o uncaught) :
              (immediates \o uncaught)[j][2] \notin timers)
    /\ [](Count(events, {"backup:timeout"}) = Len(immediates) + Len(uncaught))

C10_Witness ==
    /\ uncaught = <<TimeoutError(1)>>
    /\ immediates = <<>>
    /\ isRunning
    /\ intervalId = 2

----------------------------------------------------------------------------
\* The instant t truncated to the second.
Truncated(t) == Instant(t.sec, 0)

\* backup-YYYY-MM-DD-HH-mm-ss.backup.json for the calendar fields f.
NameOf(f) ==
    BackupPrefix \o Pad(f.year, 4) \o <<"-">> \o Pad(f.month, 2) \o <<"-">>
    \o Pad(f.day, 2) \o <<"-">> \o Pad(f.hour, 2) \o <<"-">> \o Pad(f.minute, 2)
    \o <<"-">> \o Pad(f.second, 2) \o BackupSuffix

\* C15: the Reporter's timestamp derivation inverts the Manager's filename
\* generation: parsing the name generated at instant t yields t truncated to
\* the second (so a later snapshot has the greater derived time).
C15_ParseInvertsGenerate ==
    [][parse => (fileName = generateBackupFileName(now)
                    /\ parsed' = <<Truncated(now)>>)]_vars

\* C16: the generated name is backup-YYYY-MM-DD-HH-mm-ss.backup.json with the
\* local-time year, month, day, hour, minute and second of the moment of
\* generation.
C16_NameIsLocalTime ==
    [][generate => fileName' = NameOf(LocalFields(now.sec, tz))]_vars

----------------------------------------------------------------------------
\* The notifications of an operation that failed with error, file being the
\* name computed before the failure.
Failure(error, file) ==
    <<FileEvent("backup:failed", error, file), FileEvent("backup:error", error, NoFile)>>

\* C11: when the accessor returns a value that is not a sequence, the
\* operation is rejected with the descriptive error as soon as the directory
\* is ensured, "backup:failed" carries that error and a null file name, and
\* no snapshot file is written.
C11_NonArrayIsRejected ==
    [][~isArray(students) =>
          /\ disk' = disk
          /\ \A j \in DOMAIN ops' :
                ops'[j].pc \in {"access", "mkdir"} /\ ops'[j].file = NoFile
          /\ \A i \in DOMAIN ops :
                (Finished(i) /\ emitted'[1].err \notin {AccessError, MkdirError}) =>
                    emitted' = Failure(NotArrayError, NoFile)]_vars

C11_Witness ==
    /\ ~isArray(students)
    /\ dirExists
    /\ emitted = Failure(NotArrayError, NoFile)
    /\ disk = NoFiles

\* C12: every failure of a snapshot operation (directory, accessor,
\* serialization or write) is notified as exactly one "backup:failed" followed
\* by exactly one "backup:error" carrying the same error, and raises nothing:
\* an error is raised uncaught only by the callback of the timeout path.
C12_FailuresAreNotified ==
    /\ [][/\ \A i \in DOMAIN ops :
                Finished(i) =>
                    \/ Fresh = <<"backup:completed">>
                    \/ /\ Fresh = <<"backup:failed", "backup:error">>
                       /\ emitted'[1].err # NoError
                       /\ emitted' = Failure(emitted'[1].err, emitted'[1].file)
                       /\ uncaught' = uncaught
          /\ (start \/ Tick) => (uncaught' = uncaught)
          /\ (uncaught' # uncaught) => throwImmediate]_vars
    /\ [](Count(events, {"backup:failed"}) = Count(events, {"backup:error"}))

C12_Witness ==
    /\ events = <<"backup:started", "backup:failed", "backup:error",
                  "backup:failed", "backup:error">>
    /\ emitted[1].err = WriteError
    /\ emitted[1].file # NoFile
    /\ uncaught = <<>>

\* C13: a snapshot file is never visible under its name in a partially
\* written state: whenever a Reporter lists the directory, every file in it
\* holds its complete final contents.
C13_NoPartialFile ==
    \A n \in DOMAIN disk : disk[n] = stringify(students, 2, 0)

\* C14: no operation writes to a file name an earlier operation used, so a
\* completed snapshot is never overwritten: the number of complete snapshot
\* files equals the number of "backup:completed" notifications.
C14_OneFilePerSnapshot ==
    Cardinality({n \in DOMAIN disk : disk[n] # EmptyFile})
        = Count(events, {"backup:completed"})

----------------------------------------------------------------------------
\* Both values are arrays of the same length whose records agree in every
\* field, position by position.
SameRecords(a, b) ==
    /\ isArray(a) /\ isArray(b)
    /\ Len(a[2]) = Len(b[2])
    /\ \A j \in DOMAIN a[2] : \A key \in Keys : Get(a[2][j], key) = Get(b[2][j], key)

\* C18: the snapshot file written by a successful operation, parsed with
\* loadJSON, yields a sequence of the same length whose records equal, field
\* by field and in order, the records at the time of the write.
C18_SnapshotRoundTrips ==
    loaded # <<>> => (loaded[1].ok /\ SameRecords(loaded[1].value, students))

C18_Witness ==
    /\ loaded # <<>>
    /\ loaded[1].ok
    /\ Len(students[2]) = MaxStudents
    /\ Get(students[2][1], NameKey) = Str(<<"\"", "\\", "o">>)
    /\ Get(students[2][2], AgeKey) = Undefined
    /\ Get(loaded[1].value[2][2], AgeKey) = Undefined
    /\ Get(loaded[1].value[2][2], GroupKey) = Num(0 - 4)

----------------------------------------------------------------------------
\* The names of the pattern backup-YYYY-MM-DD-HH-mm-ss.backup.json.
SnapshotPicture ==
    BackupPrefix \o IsoDate
    \o <<"-", "d", "d", "-", "d", "d", "-", "d", "d">> \o BackupSuffix
IsSnapshotName(name) == Matches(name, SnapshotPicture)

\* The files of the directory whose names have the pattern.
Snapshots(dir) == [n \in {m \in DOMAIN dir : IsSnapshotName(m)} |-> dir[n]]

\* The files with the snapshot suffix.
Suffixed(dir) == {n \in DOMAIN dir : EndsWith(n, BackupSuffix)}

\* The files of backupFiles that are read and parse to an array.
Surviving(dir) ==
    {n \in Suffixed(dir) : loadFrom(dir, n).ok /\ isArray(loadFrom(dir, n).value)}

\* C17: generateReport() ignores every directory entry whose name does not
\* match the full pattern: the outcome is an outcome of generateReport() on
\* the directory without those entries.
C17_ForeignNamesAreIgnored ==
    report # <<>> =>
        \E listing \in Orders(DOMAIN Snapshots(disk)) :
            report[1] = generateReportOn(Snapshots(disk), dirExists, listing, tz)

\* C19: when the backup directory does not exist or holds no file with the
\* snapshot suffix, generateReport() returns the report of count 0 and the
\* "no backups found" message, with no other field.
C19_NoBackupsFound ==
    (report # <<>> /\ (~dirExists \/ Suffixed(disk) = {})) =>
        report = <<Returned(NoBackups)>>

C19_Witness ==
    /\ report = <<Returned(NoBackups)>>
    /\ dirExists
    /\ DOMAIN disk = {OtherName}

\* The number of records of the surviving files, and the number of surviving
\* files that hold a record.
RECURSIVE Sum(_, _)
Sum(f, S) == IF S = {} THEN 0 ELSE LET x == CHOOSE y \in S : TRUE IN f[x] + Sum(f, S \ {x})
Sizes(dir) == [n \in Surviving(dir) |-> Len(loadFrom(dir, n).value[2])]

\* C20: a file that cannot be read, does not parse or parses to a non-array
\* is skipped without aborting generateReport(), and count, total and average
\* of the report are those of the surviving files.
C20_CorruptFilesAreSkipped ==
    (report # <<>> /\ Surviving(disk) # {} /\ Surviving(disk) # Suffixed(disk)) =>
        /\ report[1][1] = "returned"
        /\ report[1][2].amountOfBackupFiles = Cardinality(Surviving(disk))
        /\ report[1][2].averageAmountOfStudents =
               Average(Sum(Sizes(disk), Surviving(disk)),
                       Cardinality({n \in Surviving(disk) : Sizes(disk)[n] > 0}))

----------------------------------------------------------------------------
\* The time the Reporter derives from the name of a file.
DerivedTime(name) == parseTimestampFromFilename(name, tz)

\* Two derived times are the same instant.
SameTime(a, b) == a.valid /\ b.valid /\ a.sec = b.sec /\ a.ms = b.ms

\* generateReport() was called, has ended, and some file survived.
Reported == report # <<>> /\ Surviving(disk) # {}

\* The report names as latest a surviving file that no surviving file is
\* later than, with that file's derived time.
LatestIsMaximum ==
    /\ report[1][1] = "returned"
    /\ LET f == report[1][2].latestBackupFile
       IN  /\ f \in Surviving(disk)
           /\ DerivedTime(f).valid
           /\ \A g \in Surviving(disk) : ~Later(DerivedTime(g), DerivedTime(f))
           /\ report[1][2].latestBackupDatetime = toISOString(DerivedTime(f))

\* The loop reads a surviving file whose derived time is the latest time so
\* far: the latest file stays the one seen first.
TieKeepsFirst ==
    (/\ run.pc = "loop"
     /\ run.latestDate # <<>>
     /\ Head(run.backupFiles) \in Surviving(disk)
     /\ SameTime(DerivedTime(Head(run.backupFiles)), run.latestDate[1]))
        => run'.latestFile = run.latestFile

\* C21: the latest file of the report is the surviving snapshot whose
\* derived time is the maximum over the surviving files, the latest
\* timestamp is that file's derived time, and of files with equal derived
\* times the first seen is reported.
C21_LatestIsMaximum ==
    /\ [](Reported => LatestIsMaximum)
    /\ [][TieKeepsFirst]_vars

----------------------------------------------------------------------------
\* The records of a surviving file, the ids that occur in surviving files,
\* and the number of records that carry an id.
Records(dir, name) == loadFrom(dir, name).value[2]
IdsIn(dir) ==
    UNION {{Get(Records(dir, n)[j], IdKey) : j \in DOMAIN Records(dir, n)} :
              n \in Surviving(dir)}
Carrying(dir, id) ==
    Sum([n \in Surviving(dir) |->
            Cardinality({j \in DOMAIN Records(dir, n) : Get(Records(dir, n)[j], IdKey) = id})],
        Surviving(dir))

\* The entries of the per-id list that show the id.
Listed(list, id) == {j \in DOMAIN list : list[j].id = ToKey(id)}

\* C22: every id that occurs in a surviving snapshot is listed exactly once
\* in the report, with the number of records that carry it over all the
\* surviving files (an id twice in one file counts twice).
C22_CountsAreRecordCounts ==
    Reported =>
        /\ report[1][1] = "returned"
        /\ \A id \in IdsIn(disk) :
              /\ Cardinality(Listed(report[1][2].studentsGroupedById, id)) = 1
              /\ \A j \in Listed(report[1][2].studentsGroupedById, id) :
                    report[1][2].studentsGroupedById[j].amount = Carrying(disk, id)

----------------------------------------------------------------------------
\* C23: the per-id list of the report is in ascending order of id (2 comes
\* before 10), whatever the order in which files and records were read.
C23_ListIsAscending ==
    Reported =>
        /\ report[1][1] = "returned"
        /\ \A j, k \in DOMAIN report[1][2].studentsGroupedById :
              j < k => Number(report[1][2].studentsGroupedById[j].id)
                         < Number(report[1][2].studentsGroupedById[k].id)

----------------------------------------------------------------------------
\* total / files rounded to 2 decimal places, in hundredths: the integer h
\* with total / files - h / 100 in [-1/200, 1/200).
Rounded(total, files) ==
    CHOOSE h \in 0..(100 * total) :
        /\ 0 - files <= 2 * (100 * total - h * files)
        /\ 2 * (100 * total - h * files) < files

\* totalRecords and filesWithAtLeastOneRecord of a directory.
TotalRecords(dir) == Sum(Sizes(dir), Surviving(dir))
FilesWithRecords(dir) == Cardinality({n \in Surviving(dir) : Sizes(dir)[n] > 0})

\* C24: the average of the report is totalRecords / filesWithAtLeastOneRecord
\* rounded to 2 decimal places, and 0 when no surviving file holds a record.
C24_AverageOverNonEmptyFiles ==
    Reported =>
        /\ report[1][1] = "returned"
        /\ report[1][2].averageAmountOfStudents =
               IF FilesWithRecords(disk) = 0 THEN 0
               ELSE Rounded(TotalRecords(disk), FilesWithRecords(disk))

----------------------------------------------------------------------------
\* C26: the overlap counter stays between 0 and 3, only a tick that finds an
\* operation in flight increments it (by one), and it is 3 only while the
\* Manager is shut down by the overlap timeout, its timer disarmed.
C26_OverlapCounterIsBounded ==
    /\ [](/\ pendingIntervalsCount \in 0..OverlapThreshold
          /\ pendingIntervalsCount = OverlapThreshold =>
                 (ForcedStop /\ ~isRunning /\ timers = {}))
    /\ [][pendingIntervalsCount' > pendingIntervalsCount =>
              /\ Tick
              /\ isBackupInProgress
              /\ ops # <<>>
              /\ pendingIntervalsCount' = pendingIntervalsCount + 1]_vars

C26_Witness ==
    /\ pendingIntervalsCount = OverlapThreshold
    /\ ForcedStop
    /\ Len(ops) = 1
    /\ uncaught # <<>>

----------------------------------------------------------------------------
\* C27: an operation that finishes emits either "backup:completed", after
\* its file write has finished and with the name of the file written, or
\* "backup:failed", never both and never neither, and leaves the in-flight
\* flag false and the overlap counter 0 whatever the outcome.
C27_OneOutcomePerOperation ==
    [][\A i \in DOMAIN ops :
          Finished(i) =>
              /\ \/ /\ Fresh = <<"backup:completed">>
                    /\ ops[i].pc = "writing"
                    /\ emitted'[1].file = ops[i].file
                    /\ ops[i].file \in DOMAIN disk'
                    /\ disk'[ops[i].file] = ops[i].json
                 \/ /\ Count(Fresh, {"backup:failed"}) = 1
                    /\ Count(Fresh, {"backup:completed"}) = 0
              /\ ~isBackupInProgress'
              /\ pendingIntervalsCount' = 0]_vars

C27_Witness ==
    /\ events = <<"backup:started", "backup:timeout", "backup:started", "backup:completed">>
    /\ emitted[1].file \in DOMAIN disk
    /\ disk[emitted[1].file] = stringify(students, 2, 0)
    /\ ~isBackupInProgress
    /\ pendingIntervalsCount = 0
    /\ Len(ops) = 1

----------------------------------------------------------------------------
\* C28: the in-flight flag is true exactly when an operation of the Manager
\* has started and not finished, also after a timeout-forced shutdown and
\* after another operation of the Manager finished.
C28_FlagMatchesInFlight == isBackupInProgress <=> ops # <<>>

----------------------------------------------------------------------------
\* What the response holds, the places where a text occurs, and a text put
\* in before a place.
Response == Flatten(res.chunks)
Occurrences(s, p) == {j \in 1..(Len(s) - Len(p) + 1) : SubSeq(s, j, j + Len(p) - 1) = p}
InsertAt(s, j, text) == SubSeq(s, 1, j - 1) \o text \o SubSeq(s, j, Len(s))

\* C25: however the file is cut into chunks, the response is the content
\* with the reload script (and at most the line break the server adds after
\* it) put in once, before a "</body>" of the content, or at the end when
\* the content holds none, and nothing else differs.
C25_ScriptInsertedOnce ==
    res.ended =>
        IF Occurrences(html, BodyTag) = {}
        THEN Response = html \o WEBSOCKET_CLIENT_SCRIPT
        ELSE \E j \in Occurrences(html, BodyTag), sep \in {<<>>, <<"\n">>} :
                 Response = InsertAt(html, j, WEBSOCKET_CLIENT_SCRIPT \o sep)

----------------------------------------------------------------------------
\* C29: when POST /api/backup/start answers "Backup manager started" with
\* status "running" and an interval, the Manager is running on return and
\* its timer has that interval, also after a stop and after a start with
\* another interval.
C29_StartedMeansRunning ==
    [][(Len(responses') = Len(responses) + 1
          /\ Last(responses').message = "Backup manager started") =>
              /\ Last(responses').status = "running"
              /\ backupManager' # NoManager
              /\ isRunning'
              /\ backupManager'[1].backupInterval = Last(responses').interval * 1000]_vars

\* C30: after any addStudent and removeStudent calls no two records of the
\* collection that getAllStudents() hands to the Manager share an id.
C30_StoreIdsAreUnique ==
    \A j, k \in DOMAIN students[2] :
        j # k => Get(students[2][j], IdKey) # Get(students[2][k], IdKey)

====
